---- MODULE Spec2Model ----
(***************************************************************************)
(* Model of streamlit_lms_app.py: a single-file Streamlit LMS prototype    *)
(* over a SQLite store.  One action per button handler; every handler is   *)
(* one script run of one browser session.  Tables are sequences in         *)
(* insertion order; a row id (uuid4 in the source) is the row's index.     *)
(* Timestamps are left out: insertion order stands for them.               *)
(*                                                                         *)
(* Texts that the source tests with .strip() are sequences of one-letter   *)
(* strings, so that stripping is computed; texts that are only compared    *)
(* or tested for emptiness are plain strings.                              *)
(***************************************************************************)
EXTENDS Naturals, Sequences, FiniteSets

VARIABLES users, classes, materials, attendance, notifications, posts,
          tests, questions, attempts, answers, session

tables == <<users, classes, materials, attendance, notifications, posts,
            tests, questions, attempts, answers>>
vars == <<users, classes, materials, attendance, notifications, posts,
          tests, questions, attempts, answers, session>>

----------------------------------------------------------------------------
(* Bounds of the model.                                                    *)
MaxUsers == 2
MaxClasses == 2
MaxMaterials == 1
MaxAttendance == 1
MaxPosts == 1
MaxBroadcasts == 1
MaxTests == 1
MaxQuestions == 2
MaxAttempts == 2
\* Rows the users of the system have authored, over all tables.
MaxRows == 6

(* Browser sessions, each with its own st.session_state.                   *)
Sessions == {"s1", "s2"}

----------------------------------------------------------------------------
(* Python helpers.                                                         *)

\* Python's None (a NULL column) and the empty text are both the empty
\* sequence: the source only ever tests such a value for truth.
None == <<>>

\* bool(x) of a text or None.
Truthy(x) == x # <<>>

\* str.strip(): leading and trailing whitespace removed.
RECURSIVE LStrip(_)
LStrip(str) ==
    IF str = <<>> THEN <<>>
    ELSE IF Head(str) = " " THEN LStrip(Tail(str)) ELSE str

RECURSIVE RStrip(_)
RStrip(str) ==
    IF str = <<>> THEN <<>>
    ELSE IF str[Len(str)] = " " THEN RStrip(SubSeq(str, 1, Len(str) - 1)) ELSE str

Strip(str) == RStrip(LStrip(str))

\* uuid.uuid4().hex: an id no row of the table has.
NewId(tbl) == Len(tbl) + 1

\* cursor.fetchone(): the first row, or None (the empty sequence here).
\* SELECT ... WHERE is SelectSeq: the matching rows in table order.
FetchOne(rows) == IF rows = <<>> THEN <<>> ELSE <<Head(rows)>>

\* hashlib.sha256(pw.encode("utf-8")).hexdigest() on the passwords of the model.
hash_password(pw) ==
    CASE pw = "" -> "e3b0c44298fc1c149afbf4c8996fb92427ae41e4649b934ca495991b7852b855"
      [] pw = "hunter2" -> "f52fbd32b2b3b86ff88ef6c490628285f482af15ddcb29541f94bcf526a3f6c7"
      [] pw = "hunter3" -> "fb8c2e2b85ca81eb4350199faddd983cb26af3064614e737ea9f479621cfa57a"

----------------------------------------------------------------------------
(* Inputs the handlers draw from.                                          *)

Passwords == {"", "hunter2", "hunter3"}
LoginNames == {"alice", "bob"}

\* What the Daftar form may hold.
RegInputs ==
    { [username |-> "alice", display |-> "Alice",   role |-> "teacher", pw |-> "hunter2"],
      [username |-> "alice", display |-> "Mallory", role |-> "student", pw |-> "hunter3"],
      [username |-> "bob",   display |-> "Bob",     role |-> "student", pw |-> "hunter2"],
      [username |-> "",      display |-> "Nobody",  role |-> "student", pw |-> "hunter2"],
      [username |-> "bob",   display |-> "Bob",     role |-> "teacher", pw |-> ""] }

KLS2025 == <<"K", "L", "S", "2", "0", "2", "5">>
kls2025 == <<"k", "l", "s", "2", "0", "2", "5">>
Blank == <<" ", " ">>
Biology == <<"B", "i", "o">>

ClassNames == {Biology, Blank}
ClassCodes == {KLS2025, Blank, <<>>}
EntryCodes == {KLS2025, kls2025, <<>>}

----------------------------------------------------------------------------
(* Session state: st.session_state.user / current_class / current_test.    *)
(* A pointer is <<>> when unset (None, or the key absent) and <<row>>, a   *)
(* copy of the row (dict(row)), when set.                                  *)

NoSession == [user |-> <<>>, current_class |-> <<>>, current_test |-> <<>>]

LoggedIn(s) == session[s].user # <<>>
User(s) == session[s].user[1]
InClass(s) == LoggedIn(s) /\ session[s].current_class # <<>>
Cl(s) == session[s].current_class[1]
IsTeacher(s) == User(s).role = "teacher"

Init ==
    /\ users = <<>>
    /\ classes = <<>>
    /\ materials = <<>>
    /\ attendance = <<>>
    /\ notifications = <<>>
    /\ posts = <<>>
    /\ tests = <<>>
    /\ questions = <<>>
    /\ attempts = <<>>
    /\ answers = <<>>
    /\ session = [s \in Sessions |-> NoSession]

\* The rows authored so far: every table but answers and the notifications
\* that a post or a submission brings with it.
Rows ==
    Len(users) + Len(classes) + Len(materials) + Len(attendance) + Len(posts)
    + Len(SelectSeq(notifications, LAMBDA n : n.message.kind = "text"))
    + Len(tests) + Len(questions) + Len(attempts)

\* The model's bound on an insert into tbl.
Room(tbl, max) == Len(tbl) < max /\ Rows < MaxRows

----------------------------------------------------------------------------
(* Identity and access.                                                    *)

\* InsertUser as INSERT OR REPLACE: a row whose username is taken takes the
\* place of the row that has it.
InsertUserOrReplace(tbl, row) ==
    IF \E i \in 1..Len(tbl) : tbl[i].username = row.username
    THEN [i \in 1..Len(tbl) |->
            IF tbl[i].username = row.username
            THEN [row EXCEPT !.id = tbl[i].id]
            ELSE tbl[i]]
    ELSE Append(tbl, row)

\* InsertUser without the UNIQUE constraint.
InsertUserNoConstraint(tbl, row) == Append(tbl, row)

\* INSERT INTO users under the UNIQUE constraint on username: a row whose
\* username is taken raises sqlite3.IntegrityError and the table is unchanged.
InsertUser(tbl, row) ==
    IF \E i \in 1..Len(tbl) : tbl[i].username = row.username
    THEN tbl
    ELSE Append(tbl, row)

\* Button "Daftar".
Daftar(s, in) ==
    /\ users' =
         IF in.username = "" \/ in.pw = ""
         THEN users
         ELSE InsertUser(users,
                [id |-> NewId(users), username |-> in.username,
                 display_name |-> in.display, role |-> in.role,
                 password_hash |-> hash_password(in.pw)])
    /\ users' # users => Room(users, MaxUsers)
    /\ UNCHANGED <<classes, materials, attendance, notifications, posts,
                   tests, questions, attempts, answers, session>>

\* Authenticate without the comparison of the hashes.
AuthenticateAnyPassword(usern, pww) ==
    FetchOne(SelectSeq(users, LAMBDA u : u.username = usern))

\* The row the login form's credentials select, <<>> when they select none.
Authenticate(usern, pww) ==
    LET row == FetchOne(SelectSeq(users, LAMBDA u : u.username = usern))
    IN  IF row # <<>> /\ row[1].password_hash = hash_password(pww)
        THEN row
        ELSE <<>>

\* Button "Login".
Login(s, usern, pww) ==
    /\ session' = IF Authenticate(usern, pww) # <<>>
                  THEN [session EXCEPT ![s].user = Authenticate(usern, pww)]
                  ELSE session
    /\ UNCHANGED tables

\* Button "Buat Kelas", rendered for a logged-in teacher only.
BuatKelas(s, cname, acode) ==
    /\ LoggedIn(s) /\ IsTeacher(s)
    /\ classes' =
         IF Strip(cname) # <<>> /\ Strip(acode) # <<>>
         THEN Append(classes, [id |-> NewId(classes), class_name |-> cname,
                               access_code |-> acode])
         ELSE classes
    /\ classes' # classes => Room(classes, MaxClasses)
    /\ UNCHANGED <<users, materials, attendance, notifications, posts,
                   tests, questions, attempts, answers, session>>

\* str.lower() on the letters of the model's codes.
Lower(str) ==
    [i \in 1..Len(str) |->
        CASE str[i] = "K" -> "k" [] str[i] = "L" -> "l" [] str[i] = "S" -> "s"
          [] OTHER -> str[i]]

\* CheckClassAccess comparing without regard to case.
CheckClassAccessNoCase(cl, code) == Lower(code) = Lower(cl.access_code)

\* The comparison of a supplied code with the class's stored code.
CheckClassAccess(cl, code) == code = cl.access_code

\* Button "Masuk <class>" with the code text input.
MasukKelas(s, c, code) ==
    /\ LoggedIn(s)
    /\ c \in 1..Len(classes)
    /\ session' = IF code # <<>> /\ CheckClassAccess(classes[c], code)
                  THEN [session EXCEPT ![s].current_class = <<classes[c]>>]
                  ELSE session
    /\ UNCHANGED tables

----------------------------------------------------------------------------
(* Content registry.                                                       *)

M1 == <<"M", "1">>
m1 == <<"m", "1">>
Url == <<"h", "t", "t", "p">>
Path == <<"u", "p", "l", "o", "a", "d", "s", "/", "f">>
Title == <<"T">>

\* What the "Upload Materi Baru" form may hold, one input for each value of
\* the "Tipe" select box: uploaded is the path save_file returns, or None
\* when no file was chosen.
MaterialInputs ==
    { [title |-> Title, mtype |-> "pdf",            mat_code |-> M1,   uploaded |-> Path, external |-> <<>>],
      [title |-> Title, mtype |-> "flipbook",       mat_code |-> <<>>, uploaded |-> None, external |-> <<>>],
      [title |-> Title, mtype |-> "liveworksheets", mat_code |-> <<>>, uploaded |-> None, external |-> Url],
      [title |-> Title, mtype |-> "video",          mat_code |-> M1,   uploaded |-> None, external |-> Url],
      [title |-> Title, mtype |-> "iframe",         mat_code |-> M1,   uploaded |-> None, external |-> Url] }

\* What a material's code text input may hold.
MaterialEntryCodes == {<<>>, M1, m1}

Hi == <<" ", "h", "i", " ">>
PostTexts == {<<>>, Blank, Hi}
NotifTexts == {<<>>, Blank, Hi}
EmbedUrls == {<<>>, Blank, Url}

\* The class's materials, in table order.
ClassMaterials(cl) == SelectSeq(materials, LAMBDA m : m.class_id = cl.id)

\* Materi tab: whether the loop body gets past the access-code gate for m
\* when the material's code input holds code.
CheckMaterialAccess(m, code) ==
    ~ (Truthy(m.access_code) /\ code # m.access_code)

\* Materi tab: whether m's content is put on the page.
MateriShows(m, code) ==
    /\ CheckMaterialAccess(m, code)
    /\ \/ m.type \in {"pdf", "flipbook"} /\ Truthy(m.file_path)
       \/ m.type = "liveworksheets" /\ Truthy(m.external_url)
       \/ m.type = "video" /\ (Truthy(m.file_path) \/ Truthy(m.external_url))
       \/ m.type = "iframe" /\ Truthy(m.external_url)

\* Virtual Lab tab: every material of type iframe is embedded.
VirtualLabShows(m) == m.type = "iframe"

\* One script run renders every tab: the materials of session s's class whose
\* content is on the page when the code inputs hold codes (by material id).
PageShows(s, codes) ==
    { m.id : m \in { ClassMaterials(Cl(s))[i] : i \in 1..Len(ClassMaterials(Cl(s))) } }
      \cap { i \in 1..Len(materials) :
               MateriShows(materials[i], codes[i]) \/ VirtualLabShows(materials[i]) }

\* Button "Simpan Materi", rendered for a teacher only.
SimpanMateri(s, in) ==
    /\ InClass(s) /\ IsTeacher(s)
    /\ Room(materials, MaxMaterials)
    /\ materials' = Append(materials,
         [id |-> NewId(materials), class_id |-> Cl(s).id, title |-> in.title,
          access_code |-> in.mat_code, file_path |-> in.uploaded,
          external_url |-> in.external, type |-> in.mtype,
          uploaded_by |-> User(s).id])
    /\ UNCHANGED <<users, classes, attendance, notifications, posts,
                   tests, questions, attempts, answers, session>>

\* Button "Tambahkan Embed" of the Virtual Lab tab.
TambahkanEmbed(s, url) ==
    /\ InClass(s)
    /\ materials' =
         IF Strip(url) # <<>>
         THEN Append(materials,
                [id |-> NewId(materials), class_id |-> Cl(s).id,
                 title |-> <<"V", "i", "r", "t", "u", "a", "l", " ", "L", "a", "b">>,
                 access_code |-> <<>>, file_path |-> None,
                 external_url |-> url, type |-> "iframe",
                 uploaded_by |-> User(s).id])
         ELSE materials
    /\ materials' # materials => Room(materials, MaxMaterials)
    /\ UNCHANGED <<users, classes, attendance, notifications, posts,
                   tests, questions, attempts, answers, session>>

\* Button "Isi Absen Sekarang".
IsiAbsen(s) ==
    /\ InClass(s)
    /\ Room(attendance, MaxAttendance)
    /\ attendance' = Append(attendance,
         [id |-> NewId(attendance), class_id |-> Cl(s).id, user_id |-> User(s).id])
    /\ UNCHANGED <<users, classes, materials, notifications, posts,
                   tests, questions, attempts, answers, session>>

\* A notifications row.  The message of the source is a formatted text; it is
\* kept by its parts: kind "forum" is f"Diskusi baru oleh {who}", kind "done"
\* is f"{who} selesai {what}", kind "text" is the teacher's text what.
Notification(cl, kind, who, what) ==
    [id |-> NewId(notifications), class_id |-> cl.id,
     message |-> [kind |-> kind, who |-> who, what |-> what]]

\* PostAllowed without the strip().
PostAllowedUnstripped(new_post) == new_post # <<>>

\* The condition on the text area next to "Post Diskusi".
PostAllowed(new_post) == Strip(new_post) # <<>>

\* Button "Post Diskusi".
PostDiskusi(s, new_post) ==
    /\ InClass(s)
    /\ IF PostAllowed(new_post)
       THEN /\ Room(posts, MaxPosts)
            /\ posts' = Append(posts,
                 [id |-> NewId(posts), class_id |-> Cl(s).id,
                  user_id |-> User(s).id, content |-> new_post])
            /\ notifications' = Append(notifications,
                 Notification(Cl(s), "forum", User(s).display_name, <<>>))
       ELSE UNCHANGED <<posts, notifications>>
    /\ UNCHANGED <<users, classes, materials, attendance,
                   tests, questions, attempts, answers, session>>

\* The teacher's own notifications among the rows.
Broadcasts == SelectSeq(notifications, LAMBDA n : n.message.kind = "text")

\* Button "Kirim Notifikasi", rendered for a teacher only.
KirimNotifikasi(s, new_notif) ==
    /\ InClass(s) /\ IsTeacher(s)
    /\ IF Strip(new_notif) # <<>>
       THEN /\ Room(Broadcasts, MaxBroadcasts)
            /\ notifications' = Append(notifications,
                 Notification(Cl(s), "text", "", new_notif))
       ELSE UNCHANGED notifications
    /\ UNCHANGED <<users, classes, materials, attendance, posts,
                   tests, questions, attempts, answers, session>>

----------------------------------------------------------------------------
(* Assessment engine.                                                      *)

\* The options of every question's radio, in the order of the source.
Options == <<"A", "B", "C", "D", "E">>

\* The state of a radio the student has not touched.
NoSel == "-"

\* Keys the teacher picks from, and what a radio may hold at submission.
KeyLetters == {"A", "B"}
Selections == {NoSel, "A", "B"}

TestTitles == {<<>>, Blank, <<"P", "r", "e">>}
QuestionTexts == {Blank, <<"Q">>}

\* st.radio(label, options) without index: an untouched radio returns the
\* first option.
st_radio(sel) == IF sel = NoSel THEN Options[1] ELSE sel

RECURSIVE GCD(_, _)
GCD(a, b) == IF b = 0 THEN a ELSE GCD(b, a % b)

\* ScoreVal with an integer division: (score // len(qs)) * 100.
ScoreValFloorDiv(score, n) == <<(score \div n) * 100, 1>>

\* (score / len(qs)) * 100, a Python float, as the fraction <<num, den>> in
\* lowest terms; n > 0.
ScoreVal(score, n) ==
    LET g == GCD(100 * score, n)
    IN  <<(100 * score) \div g, n \div g>>

Test(s) == session[s].current_test[1]
InTest(s) == InClass(s) /\ session[s].current_test # <<>>

\* SELECT * FROM questions WHERE test_id=?
TestQuestions(t) == SelectSeq(questions, LAMBDA q : q.test_id = t.id)

\* HasQuestions without the "if not qs" test.
HasQuestionsUnguarded(qs) == TRUE

\* "if not qs: st.warning(...) else: ..." : the questions and the submit
\* button are rendered only for a test that has questions.
HasQuestions(qs) == qs # <<>>

\* The test-taking form with "Kirim Jawaban" is on session s's page.
SubmitRendered(s) == InTest(s) /\ HasQuestions(TestQuestions(Test(s)))

\* Button "Buat Test", rendered for a teacher only.
BuatTest(s, ttl, is_pre) ==
    /\ InClass(s) /\ IsTeacher(s)
    /\ tests' =
         IF Strip(ttl) # <<>>
         THEN Append(tests,
                [id |-> NewId(tests), class_id |-> Cl(s).id, title |-> ttl,
                 is_pretest |-> IF is_pre THEN 1 ELSE 0,
                 created_by |-> User(s).id])
         ELSE tests
    /\ tests' # tests => Room(tests, MaxTests)
    /\ UNCHANGED <<users, classes, materials, attendance, notifications, posts,
                   questions, attempts, answers, session>>

\* Mulai on any test of the table, listed for the current class or not.
MulaiUnlisted(s, t) ==
    /\ InClass(s)
    /\ t \in 1..Len(tests)
    /\ session' = [session EXCEPT ![s].current_test = <<tests[t]>>]
    /\ UNCHANGED tables

\* Button "Mulai" of a test listed for the current class.
Mulai(s, t) ==
    /\ InClass(s)
    /\ t \in 1..Len(tests)
    /\ tests[t].class_id = Cl(s).id
    /\ session' = [session EXCEPT ![s].current_test = <<tests[t]>>]
    /\ UNCHANGED tables

\* Button "Tambah Soal", rendered for a teacher with a current test.  The
\* five option texts are stored and never read; they are left out.
TambahSoal(s, qtext, correct) ==
    /\ InTest(s) /\ IsTeacher(s)
    /\ questions' =
         IF Strip(qtext) # <<>>
         THEN Append(questions,
                [id |-> NewId(questions), test_id |-> Test(s).id,
                 text |-> qtext, correct_option |-> correct])
         ELSE questions
    /\ questions' # questions => Room(questions, MaxQuestions)
    /\ UNCHANGED <<users, classes, materials, attendance, notifications, posts,
                   tests, attempts, answers, session>>

\* The answers dict: for the i-th question of qs, what its radio returns.
Answers(qs, sel) == [i \in 1..Len(qs) |-> st_radio(sel[i])]

\* The number of questions of qs whose key is the chosen option.
Correct(qs, chosen) ==
    Cardinality({i \in 1..Len(qs) : qs[i].correct_option = chosen[i]})

\* The answers rows of one attempt, one per entry of the answers dict.
AnswerRows(tbl, attempt_id, qs, chosen) ==
    [i \in 1..Len(qs) |->
        [id |-> Len(tbl) + i, attempt_id |-> attempt_id,
         question_id |-> qs[i].id, chosen_option |-> chosen[i]]]

\* Button "Kirim Jawaban"; sel is the state of the radios, by position in qs.
KirimJawaban(s, sel) ==
    /\ SubmitRendered(s)
    /\ Room(attempts, MaxAttempts)
    /\ LET t == Test(s)
           qs == TestQuestions(t)
           chosen == Answers(qs, sel)
           attempt_id == NewId(attempts)
       IN  /\ sel \in [1..Len(qs) -> Selections]
           /\ IF Len(qs) = 0
              THEN \* ZeroDivisionError: the run ends with nothing written
                   UNCHANGED <<attempts, answers, notifications, session>>
              ELSE /\ attempts' = Append(attempts,
                        [id |-> attempt_id, test_id |-> t.id,
                         user_id |-> User(s).id,
                         score |-> ScoreVal(Correct(qs, chosen), Len(qs))])
                   /\ answers' = answers \o AnswerRows(answers, attempt_id, qs, chosen)
                   /\ notifications' = Append(notifications,
                        Notification(Cl(s), "done", User(s).display_name, t.title))
                   /\ session' = [session EXCEPT ![s].current_test = <<>>]
    /\ UNCHANGED <<users, classes, materials, attendance, posts, tests, questions>>

----------------------------------------------------------------------------
\* One script run of session s: the handler of the one button clicked.
Act(s) ==
    \/ \E in \in RegInputs : Daftar(s, in)
    \/ \E u \in LoginNames, p \in Passwords : Login(s, u, p)
    \/ \E n \in ClassNames, a \in ClassCodes : BuatKelas(s, n, a)
    \/ \E c \in 1..MaxClasses, code \in EntryCodes : MasukKelas(s, c, code)
    \/ \E in \in MaterialInputs : SimpanMateri(s, in)
    \/ \E url \in EmbedUrls : TambahkanEmbed(s, url)
    \/ IsiAbsen(s)
    \/ \E txt \in PostTexts : PostDiskusi(s, txt)
    \/ \E txt \in NotifTexts : KirimNotifikasi(s, txt)
    \/ \E ttl \in TestTitles, is_pre \in BOOLEAN : BuatTest(s, ttl, is_pre)
    \/ \E t \in 1..MaxTests : Mulai(s, t)
    \/ \E txt \in QuestionTexts, k \in KeyLetters : TambahSoal(s, txt, k)
    \/ \E sel \in UNION { [1..n -> Selections] : n \in 0..MaxQuestions } :
           KirimJawaban(s, sel)

Next == \E s \in Sessions : Act(s)

Spec == Init /\ [][Next]_vars

----------------------------------------------------------------------------
(* Properties.                                                             *)

\* The row a step has appended to tbl (the last row of the new table).
Last(tbl) == tbl[Len(tbl)]

\* The answers rows of attempt a in table tbl.
AnswersOf(tbl, a) == SelectSeq(tbl, LAMBDA r : r.attempt_id = a.id)

\* Among qs, the questions that the rows answer with the question's key.
RightlyAnswered(qs, rows) ==
    { i \in 1..Len(qs) :
        \E j \in 1..Len(rows) : /\ rows[j].question_id = qs[i].id
                                /\ rows[j].chosen_option = qs[i].correct_option }

AllSelections == UNION { [1..n -> Selections] : n \in 0..MaxQuestions }

\* C1: the score of a new attempts row is 100 * k / n, where n >= 1 is the
\* number of questions of the test at submission and k the number of them
\* whose submitted option is the question's key; so it lies in 0..100.
C1_ScoreIsPercentageCorrect ==
    [][attempts' # attempts =>
        LET a == Last(attempts')
            qs == TestQuestions(tests[a.test_id])
            n == Len(qs)
            k == Cardinality(RightlyAnswered(qs, AnswersOf(answers', a)))
        IN  /\ Len(attempts') = Len(attempts) + 1
            /\ n >= 1
            /\ a.score[2] >= 1
            /\ a.score[1] * n = 100 * k * a.score[2]
            /\ a.score[1] <= 100 * a.score[2]]_vars

\* C1 witness: an attempt on a two-question test with one right answer.
C1_Witness ==
    \E i \in 1..Len(attempts) :
        /\ attempts[i].score = <<50, 1>>
        /\ Len(AnswersOf(answers, attempts[i])) = 2

\* C2: the submit form is on no page whose test has zero questions, so the
\* score is never computed with a question count of zero; and every attempts
\* row was submitted against at least one question (it has an answers row).
C2_NoSubmitWithoutQuestions ==
    /\ \A s \in Sessions :
          SubmitRendered(s) => Len(TestQuestions(Test(s))) >= 1
    /\ \A i \in 1..Len(attempts) : Len(AnswersOf(answers, attempts[i])) >= 1

\* C2 witness: a session has started a test that has no questions, and the
\* submit form is not on its page.
C2_Witness ==
    \E s \in Sessions :
        /\ InTest(s)
        /\ TestQuestions(Test(s)) = <<>>
        /\ ~ SubmitRendered(s)

\* C3 (as claimed): a submission in which no radio was touched yields an
\* attempt with score 0, whatever the keys of the questions are.
C3_UntouchedScoresZero ==
    [][attempts' # attempts =>
        \A s \in Sessions, sel \in AllSelections :
          ((\A i \in DOMAIN sel : sel[i] = NoSel) /\ KirimJawaban(s, sel))
          => Last(attempts').score = <<0, 1>>]_vars

\* C4: a step never changes a users row; a Daftar with a username that has a
\* row leaves the table as it is; and after every step no two users rows
\* share a username.
C4_UsernamesUnique ==
    [][users' # users =>
        /\ Len(users') >= Len(users)
        /\ SubSeq(users', 1, Len(users)) = users
        /\ \A s \in Sessions, in \in RegInputs :
              (\E i \in 1..Len(users) : users[i].username = in.username)
              => ~ Daftar(s, in)
        /\ \A i, j \in 1..Len(users') :
              users'[i].username = users'[j].username => i = j]_vars

\* C4 witness: two users are registered, the first of them as "alice".
C4_Witness ==
    /\ Len(users) = 2
    /\ users[1].username = "alice"

\* The users row with username usern whose hash is that of pww, as a set.
Matching(usern, pww) ==
    { i \in 1..Len(users) : /\ users[i].username = usern
                            /\ users[i].password_hash = hash_password(pww) }

\* C5: a step changes a session's user pointer only by a Login whose
\* username has a row with the hash of the supplied password, and then to
\* that row; a Login with other credentials does not change the pointer.
C5_LoginOnlyWithMatchingHash ==
    [][\A s \in Sessions :
          session'[s].user # session[s].user =>
              /\ \E u \in LoginNames, p \in Passwords :
                    /\ Login(s, u, p)
                    /\ \E i \in Matching(u, p) : session'[s].user = <<users[i]>>
              /\ \A u \in LoginNames, p \in Passwords :
                    Matching(u, p) = {} => ~ Login(s, u, p)]_vars

\* C5 witness: a session is logged in while another user, with another
\* password, is registered.
C5_Witness ==
    \E s \in Sessions :
        /\ LoggedIn(s)
        /\ \E i \in 1..Len(users) : users[i].password_hash # User(s).password_hash

\* C6: a step changes a session's current class only by a Masuk with the
\* stored code of a class, and then to that class; a Masuk with any other
\* code (a case variant, the empty text) does not change the pointer.
C6_ClassEntryByExactCode ==
    [][\A s \in Sessions :
          session'[s].current_class # session[s].current_class =>
              /\ \E c \in 1..Len(classes) :
                    /\ MasukKelas(s, c, classes[c].access_code)
                    /\ session'[s].current_class = <<classes[c]>>
              /\ \A c \in 1..Len(classes), code \in EntryCodes :
                    MasukKelas(s, c, code) =>
                        /\ code = classes[c].access_code
                        /\ session'[s].current_class = <<classes[c]>>]_vars

\* C6 witness: a session has entered a class.
C6_Witness ==
    \E s \in Sessions : InClass(s) /\ Cl(s).access_code = KLS2025

\* C7 (as claimed): whatever the code inputs hold, a material with an access
\* code has its content on a session's page only if the input of that
\* material holds the stored code.
C7_ProtectedMaterialNeedsCode ==
    \A s \in Sessions :
        InClass(s) =>
            \A codes \in [1..Len(materials) -> MaterialEntryCodes] :
                \A i \in PageShows(s, codes) :
                    Truthy(materials[i].access_code)
                    => codes[i] = materials[i].access_code

\* C8: a step changes posts only by a Post Diskusi with a text that is not
\* blank, which appends one posts row of the session's class and user and
\* one notifications row of that class naming the user; a Post Diskusi with
\* a blank text changes neither table; after every step no posts row has a
\* blank content.
C8_PostNeedsText ==
    [][posts' # posts =>
        /\ \E s \in Sessions, txt \in PostTexts : PostDiskusi(s, txt)
        /\ \A s \in Sessions, txt \in PostTexts :
              PostDiskusi(s, txt) =>
                  /\ Strip(txt) # <<>>
                  /\ posts' = Append(posts, Last(posts'))
                  /\ Last(posts').class_id = Cl(s).id
                  /\ Last(posts').user_id = User(s).id
                  /\ Last(posts').content = txt
                  /\ notifications' = Append(notifications, Last(notifications'))
                  /\ Last(notifications').class_id = Cl(s).id
                  /\ Last(notifications').message =
                        [kind |-> "forum", who |-> User(s).display_name,
                         what |-> <<>>]
        /\ \A i \in 1..Len(posts') : Strip(posts'[i].content) # <<>>]_vars

\* C8 witness: a post and its notification are stored.
C8_Witness ==
    /\ Len(posts) = 1
    /\ \E i \in 1..Len(notifications) :
          /\ notifications[i].message.kind = "forum"
          /\ notifications[i].class_id = posts[1].class_id

\* C9 (as claimed): a step that adds an attempts row adds one answers row for
\* each question of the test, each of that attempt, and appends one
\* notification naming the user and the test's title to the class that owns
\* the test.
C9_SubmissionSideEffects ==
    [][attempts' # attempts =>
        LET a == Last(attempts')
            t == tests[a.test_id]
            qs == TestQuestions(t)
            rows == AnswersOf(answers', a)
        IN  /\ attempts' = Append(attempts, a)
            /\ Len(answers') = Len(answers) + Len(qs)
            /\ SubSeq(answers', 1, Len(answers)) = answers
            /\ Len(rows) = Len(qs)
            /\ \A i \in 1..Len(qs) :
                  Cardinality({j \in 1..Len(rows) : rows[j].question_id = qs[i].id}) = 1
            /\ notifications' = Append(notifications, Last(notifications'))
            /\ Last(notifications').message =
                  [kind |-> "done", who |-> users[a.user_id].display_name,
                   what |-> t.title]
            /\ Last(notifications').class_id = t.class_id]_vars

\* C10 (as claimed): no step of a session whose user is a student adds a row
\* to classes, materials, tests or questions, or a notification of the
\* teacher's own text.
C10_StudentsAuthorNothing ==
    [][\/ /\ classes' = classes
          /\ materials' = materials
          /\ tests' = tests
          /\ questions' = questions
          /\ Broadcasts' = Broadcasts
       \/ \A s \in Sessions :
             ~ (LoggedIn(s) /\ User(s).role = "student" /\ Act(s))]_vars

\* C11: a step sets a session's current test only by a Mulai on a test listed
\* for the session's class, and writes nothing then; it clears the pointer
\* only by a Kirim Jawaban; attempts and answers rows are written only by a
\* Kirim Jawaban of a session whose current test is the attempt's test, and
\* that step appends one attempt, answers of that attempt only, and clears the
\* session's pointer.
C11_TestTakingStates ==
    [][/\ \A s \in Sessions :
             session'[s].current_test # session[s].current_test =>
                 IF session'[s].current_test # <<>>
                 THEN /\ tables' = tables
                      /\ InClass(s)
                      /\ \E t \in 1..Len(tests) :
                            /\ Mulai(s, t)
                            /\ tests[t].class_id = Cl(s).id
                            /\ session'[s].current_test = <<tests[t]>>
                 ELSE \E sel \in AllSelections : KirimJawaban(s, sel)
       /\ (attempts' # attempts \/ answers' # answers) =>
             /\ attempts' = Append(attempts, Last(attempts'))
             /\ Len(answers') > Len(answers)
             /\ SubSeq(answers', 1, Len(answers)) = answers
             /\ \A j \in (Len(answers) + 1)..Len(answers') :
                   answers'[j].attempt_id = Last(attempts').id
             /\ \E s \in Sessions :
                   /\ InTest(s)
                   /\ Last(attempts').test_id = Test(s).id
                   /\ Last(attempts').user_id = User(s).id
                   /\ session'[s].current_test = <<>>
                   /\ \E sel \in AllSelections : KirimJawaban(s, sel)]_vars

\* C11 witness: one user has submitted the same test twice, and no session
\* of that user has the test as its current test any more.
C11_Witness ==
    /\ Len(attempts) = 2
    /\ attempts[1].test_id = attempts[2].test_id
    /\ attempts[1].user_id = attempts[2].user_id
    /\ \A s \in Sessions :
          (LoggedIn(s) /\ User(s).id = attempts[1].user_id)
          => session[s].current_test = <<>>

\* new holds every row of old, unchanged and in its place.
Grown(old, new) ==
    /\ Len(new) >= Len(old)
    /\ SubSeq(new, 1, Len(old)) = old

\* C12: no step changes or removes a row of any table: every table of the
\* new state starts with the table of the old state.  So the score of a
\* stored attempt stays as it was when questions are added to its test, and
\* a user's role stays as registered.
C12_RowsAreAppendOnly ==
    [][/\ Grown(users, users')
       /\ Grown(classes, classes')
       /\ Grown(materials, materials')
       /\ Grown(attendance, attendance')
       /\ Grown(notifications, notifications')
       /\ Grown(posts, posts')
       /\ Grown(tests, tests')
       /\ Grown(questions, questions')
       /\ Grown(attempts, attempts')
       /\ Grown(answers, answers')]_vars

\* C12 witness: a question was added to a test after an attempt on it was
\* stored (the attempt has fewer answers than the test has questions), and
\* the attempt keeps the score of its one answered question.
C12_Witness ==
    \E i \in 1..Len(attempts) :
        /\ Len(AnswersOf(answers, attempts[i])) = 1
        /\ Len(TestQuestions(tests[attempts[i].test_id])) = 2
        /\ attempts[i].score \in {<<0, 1>>, <<100, 1>>}
====
